---- MODULE Spec2Model ----
(***************************************************************************)
(* globalsend-crypto (crates/globalsend-crypto/src/lib.rs): device keys,   *)
(* X25519 ECDH, HKDF key derivation and the XChaCha20-Poly1305 wrappers    *)
(* aead_encrypt / aead_decrypt with their per-message nonce derivation.    *)
(*                                                                         *)
(* Bytes are the integers 0..255.  A u64 is held as four 16-bit limbs,     *)
(* most significant first (TLC's integers are 32 bits wide), so the whole  *)
(* 64-bit range of the message counter is representable.                   *)
(*                                                                         *)
(* The three external crates (x25519_dalek, hkdf, chacha20poly1305) are    *)
(* modelled at their interface by small computed stand-ins: a              *)
(* Diffie-Hellman group of prime order, a byte-mixing expansion, and a     *)
(* stream cipher with a 16-byte tag.  Everything lib.rs itself does (the   *)
(* nonce derivation, the split of the expansion, what is handed to the     *)
(* cipher, what is left in memory) is translated from its code.            *)
(***************************************************************************)
EXTENDS Integers, Sequences, FiniteSets, TLC

VARIABLES
    dev,      \* DeviceKey per endpoint: its state and the bytes of `secret`
    shared,   \* the [u8; 32] each endpoint got back from ecdh
    session,  \* the (key, base_nonce) each endpoint got back from derive_aead
    residue,  \* buffers whose owner went out of scope, with the bytes left in them
    chan,     \* the (key, base_nonce) pair the channel runs under
    sent,     \* the aead_encrypt calls made so far, in call order
    recv,     \* the aead_decrypt call whose Result the caller holds, if any
    nq        \* one evaluation of the nonce derivation for two counters

vars == <<dev, shared, session, residue, chan, sent, recv, nq>>

(***************************************************************************)
(* Sizes                                                                   *)
(***************************************************************************)
AEAD_KEY_LEN == 32

AEAD_NONCE_LEN == 24

\* Poly1305 tag appended by XChaCha20Poly1305::encrypt
TAG_LEN == 16

\* Upper bound on the aead_encrypt calls recorded in `sent`
MaxCalls == 2

(***************************************************************************)
(* Bytes and 64-bit counters                                               *)
(***************************************************************************)
Byte == 0..255

Zeros(n) == [i \in 1..n |-> 0]

IsZero(bytes) == \A i \in 1..Len(bytes) : bytes[i] = 0

RECURSIVE BitXorBits(_, _)
\* exclusive-or, bit by bit from the lowest
BitXorBits(a, b) ==
    IF a = 0 THEN b
    ELSE IF b = 0 THEN a
    ELSE (((a % 2) + (b % 2)) % 2) + 2 * BitXorBits(a \div 2, b \div 2)

\* the same, tabulated once for all pairs of bytes
XorTable == [a \in Byte |-> [b \in Byte |-> BitXorBits(a, b)]]

\* u8 ^ u8
BitXor(a, b) == XorTable[a][b]

RECURSIVE FoldXor(_)
FoldXor(bytes) ==
    IF bytes = <<>> THEN 0 ELSE BitXor(Head(bytes), FoldXor(Tail(bytes)))

\* a u64 as 16-bit limbs <<bits 63..48, 47..32, 31..16, 15..0>>, each in 0..65535
U64(l3, l2, l1, l0) == <<l3, l2, l1, l0>>

U64Lt(a, b) ==
    \E k \in 1..4 : a[k] < b[k] /\ \A j \in 1..(k - 1) : a[j] = b[j]

\* u64::to_le_bytes, the byte order a mistaken encoding would use
to_le_bytes(counter) ==
    << counter[4] % 256, counter[4] \div 256, counter[3] % 256, counter[3] \div 256,
       counter[2] % 256, counter[2] \div 256, counter[1] % 256, counter[1] \div 256 >>

\* the counter narrowed to 32 bits before it is encoded
to_be_bytes_low32(counter) ==
    << 0, 0, 0, 0, counter[3] \div 256, counter[3] % 256, counter[4] \div 256, counter[4] % 256 >>

\* u64::to_be_bytes: most significant byte first
to_be_bytes(counter) ==
    << counter[1] \div 256, counter[1] % 256, counter[2] \div 256, counter[2] % 256,
       counter[3] \div 256, counter[3] % 256, counter[4] \div 256, counter[4] % 256 >>

\* the loop body never running
XorCounterLoop_skip(nonce_bytes, ctr_bytes, i, until) == nonce_bytes

RECURSIVE XorCounterLoop(_, _, _, _)
\* for i in from..8 { let idx = AEAD_NONCE_LEN - 8 + i; nonce_bytes[idx] ^= ctr_bytes[i]; }
\* (Rust indexes from 0, sequences here from 1)
XorCounterLoop(nonce_bytes, ctr_bytes, i, until) ==
    IF i >= until THEN nonce_bytes
    ELSE XorCounterLoop(
             [nonce_bytes EXCEPT ![AEAD_NONCE_LEN - 8 + i + 1] = BitXor(@, ctr_bytes[i + 1])],
             ctr_bytes, i + 1, until)

\* the loop stopping one byte early: the counter's low byte never reaches the nonce
enc_nonce_bytes_short(base_nonce, counter) ==
    XorCounterLoop(base_nonce, to_be_bytes(counter), 0, 7)

\* the counter written in little-endian order
enc_nonce_bytes_le(base_nonce, counter) ==
    XorCounterLoop(base_nonce, to_le_bytes(counter), 0, 8)

\* aead_encrypt: nonce_bytes = copy of base_nonce with the counter xored into the last 8 bytes
enc_nonce_bytes(base_nonce, counter) ==
    XorCounterLoop(base_nonce, to_be_bytes(counter), 0, 8)

\* the decrypt side writing the counter in little-endian order
dec_nonce_bytes_le(base_nonce, counter) ==
    XorCounterLoop(base_nonce, to_le_bytes(counter), 0, 8)

\* aead_decrypt: the same derivation, written out a second time in the source
dec_nonce_bytes(base_nonce, counter) ==
    XorCounterLoop(base_nonce, to_be_bytes(counter), 0, 8)

(***************************************************************************)
(* x25519_dalek, at its interface: a Diffie-Hellman group.  The stand-in   *)
(* is the multiplicative group modulo the prime DH_P with generator DH_G;  *)
(* a scalar is 32 bytes of which the group uses the first, a point is      *)
(* encoded in 32 bytes, little-endian.                                     *)
(***************************************************************************)
DH_P == 251

DH_G == 6

RECURSIVE PowMod(_, _)
PowMod(b, e) == IF e = 0 THEN 1 ELSE (b * PowMod(b, e - 1)) % DH_P

PointBytes(n) == [i \in 1..32 |-> IF i = 1 THEN n ELSE 0]

\* PublicKey::from(&StaticSecret)
X25519Base(secret) == PointBytes(PowMod(DH_G, secret[1]))

\* StaticSecret::diffie_hellman(&PublicKey), then SharedSecret::to_bytes
X25519(secret, peer) == PointBytes(PowMod(peer[1], secret[1]))

\* DeviceKey::public
public(secret) == X25519Base(secret)

\* ecdh computed against the base point instead of the peer's public key
ecdh_ignores_peer(secret, peer) == X25519Base(secret)

\* DeviceKey::ecdh
ecdh(secret, peer) == X25519(secret, peer)

(***************************************************************************)
(* hkdf, at its interface: Hkdf::new(None, ikm) then expand(info, okm).    *)
(* The stand-in mixes the input keying material, the info label and the    *)
(* output position into each output byte.                                  *)
(***************************************************************************)
\* b"globalsend v1"
HKDF_INFO == <<103, 108, 111, 98, 97, 108, 115, 101, 110, 100, 32, 118, 49>>

HkdfExpand(ikm, info, len) ==
    LET label == FoldXor(info)
        salt  == FoldXor(ikm)
    IN  [j \in 1..len |->
            (BitXor(ikm[((j - 1) % Len(ikm)) + 1], label) + (j * 7) + salt) % 256]

\* the base nonce copied from the front of the expansion instead of its tail
derive_aead_front(shared_secret) ==
    LET okm == HkdfExpand(shared_secret, HKDF_INFO, AEAD_KEY_LEN + AEAD_NONCE_LEN)
    IN  [key   |-> SubSeq(okm, 1, AEAD_KEY_LEN),
         nonce |-> SubSeq(okm, 1, AEAD_NONCE_LEN),
         okm   |-> okm]

\* derive_aead: key = okm[..AEAD_KEY_LEN], nonce = okm[AEAD_KEY_LEN..]; okm is the
\* local buffer as it stands when the function returns
derive_aead(shared_secret) ==
    LET okm == HkdfExpand(shared_secret, HKDF_INFO, AEAD_KEY_LEN + AEAD_NONCE_LEN)
    IN  [key   |-> SubSeq(okm, 1, AEAD_KEY_LEN),
         nonce |-> SubSeq(okm, AEAD_KEY_LEN + 1, AEAD_KEY_LEN + AEAD_NONCE_LEN),
         okm   |-> okm]

(***************************************************************************)
(* chacha20poly1305, at its interface: XChaCha20Poly1305::new(key), then   *)
(* encrypt / decrypt of a Payload { msg, aad } under a 24-byte nonce.      *)
(* The stand-in is a stream cipher (body = msg xor keystream) followed by  *)
(* a TAG_LEN-byte tag = one-time pad from (key, nonce) plus a digest of    *)
(* the aad and the body; decrypt refuses a buffer shorter than the tag     *)
(* and a tag that does not match, as the crate does.                       *)
(***************************************************************************)
Ok(bytes) == [ok |-> TRUE, val |-> bytes]

Err == [ok |-> FALSE, val |-> <<>>]

Keystream(key, nonce, i) ==
    (key[((i - 1) % AEAD_KEY_LEN) + 1] + nonce[((i - 1) % AEAD_NONCE_LEN) + 1] + i) % 256

StreamXor(key, nonce, data) ==
    [i \in 1..Len(data) |-> BitXor(data[i], Keystream(key, nonce, i))]

\* the one-time pad of the tag: the key folded onto itself, xored with the nonce
\* (its last 8 bytes folded onto bytes 9..16)
TagPad(key, nonce) ==
    [i \in 1..TAG_LEN |->
        BitXor(BitXor(key[i], key[TAG_LEN + i]),
               IF i > 8 THEN BitXor(nonce[i], nonce[i + 8]) ELSE nonce[i])]

\* digest of what is authenticated: the aad, the body and their lengths
TagDigest(aad, body) ==
    <<FoldXor(aad), Len(aad) % 256, FoldXor(body), Len(body) % 256>> \o Zeros(TAG_LEN - 4)

Tag(key, nonce, aad, body) ==
    LET pad    == TagPad(key, nonce)
        digest == TagDigest(aad, body)
    IN  [i \in 1..TAG_LEN |-> (pad[i] + digest[i]) % 256]

\* cipher.encrypt(nonce, Payload { msg, aad }): body followed by the tag
AeadSeal(key, nonce, aad, msg) ==
    LET body == StreamXor(key, nonce, msg)
    IN  Ok(body \o Tag(key, nonce, aad, body))

\* a cipher that decrypts without checking the tag
AeadOpen_unverified(key, nonce, aad, msg) ==
    IF Len(msg) < TAG_LEN THEN Err
    ELSE Ok(StreamXor(key, nonce, SubSeq(msg, 1, Len(msg) - TAG_LEN)))

\* cipher.decrypt(nonce, Payload { msg, aad })
AeadOpen(key, nonce, aad, msg) ==
    IF Len(msg) < TAG_LEN THEN Err
    ELSE LET body == SubSeq(msg, 1, Len(msg) - TAG_LEN)
             tag  == SubSeq(msg, Len(msg) - TAG_LEN + 1, Len(msg))
         IN  IF tag = Tag(key, nonce, aad, body)
             THEN Ok(StreamXor(key, nonce, body))
             ELSE Err

\* aead_encrypt
aead_encrypt(key, base_nonce, counter, aad, plaintext) ==
    AeadSeal(key, enc_nonce_bytes(base_nonce, counter), aad, plaintext)

\* aead_decrypt answering a buffer shorter than the tag with an empty plaintext
aead_decrypt_short_ok(key, base_nonce, counter, aad, ciphertext) ==
    IF Len(ciphertext) < TAG_LEN THEN Ok(<<>>)
    ELSE AeadOpen(key, dec_nonce_bytes(base_nonce, counter), aad, ciphertext)

\* aead_decrypt
aead_decrypt(key, base_nonce, counter, aad, ciphertext) ==
    AeadOpen(key, dec_nonce_bytes(base_nonce, counter), aad, ciphertext)

(***************************************************************************)
(* Inputs the callers draw from                                            *)
(***************************************************************************)
Devices == {"alice", "bob"}

Peer(d) == IF d = "alice" THEN "bob" ELSE "alice"

\* StaticSecret::new(OsRng): 32 random bytes, here one of three samples
ScalarBytes(n) == [i \in 1..32 |-> IF i = 1 THEN n ELSE (i * n) % 256]

Scalars == {ScalarBytes(2), ScalarBytes(3), ScalarBytes(5)}

None == <<>>

\* message counters, from both ends of the 64-bit range
ChanCounters == {U64(0, 0, 0, 1), U64(0, 0, 0, 2)}

Counters ==
    ChanCounters \cup
    { U64(0, 0, 0, 0), U64(256, 0, 0, 0), U64(0, 0, 0, 256), U64(0, 0, 1, 0), U64(0, 1, 0, 1),
      U64(32768, 0, 0, 0), U64(65535, 65535, 65535, 65535), U64(258, 772, 1286, 1800) }

\* b"meta", the aad of the messages sent
SentAads == {<<109, 101, 116, 97>>}

\* b"meta" and b"meta2", the aads a receiver tries
Aads == SentAads \cup {<<109, 101, 116, 97, 50>>}

\* b"" and b"hi"
Plaintexts == {<<>>, <<104, 105>>}

\* (key, base_nonce) pairs as two endpoints derive them
ChanSessions ==
    { [key |-> derive_aead(ecdh(a, public(b))).key,
       base_nonce |-> derive_aead(ecdh(a, public(b))).nonce] :
         a \in {ScalarBytes(2)}, b \in {ScalarBytes(3), ScalarBytes(5)} }

BaseNonces ==
    {s.base_nonce : s \in ChanSessions} \cup
    {Zeros(AEAD_NONCE_LEN), [i \in 1..AEAD_NONCE_LEN |-> 255]}

FlipBit(bytes, p, k) == [bytes EXCEPT ![p] = BitXor(@, 2 ^ k)]

(***************************************************************************)
(* Key agreement: generate, ecdh, derive_aead and the ends of the owners'  *)
(* scopes                                                                  *)
(***************************************************************************)
NoDevice == [state |-> "none", secret |-> None]

NoQuery == [done |-> FALSE, base0 |-> None, base_nonce |-> None, c1 |-> None, c2 |-> None,
            enc1 |-> None, enc2 |-> None, dec1 |-> None, dec2 |-> None]

NoChan == [key |-> None, base_nonce |-> None]

InitKex ==
    /\ dev = [d \in Devices |-> NoDevice]
    /\ shared = [d \in Devices |-> None]
    /\ session = [d \in Devices |-> None]
    /\ residue = {}
    /\ chan = NoChan
    /\ sent = <<>>
    /\ recv = None
    /\ nq = NoQuery

\* DeviceKey::generate
generate(d) ==
    /\ dev[d].state = "none"
    /\ \E s \in Scalars : dev' = [dev EXCEPT ![d] = [state |-> "live", secret |-> s]]
    /\ UNCHANGED <<shared, session, residue, chan, sent, recv, nq>>

\* let shared = a.ecdh(&b.public()): the SharedSecret inside ecdh is dropped at its
\* return (x25519_dalek zeroizes it), the [u8; 32] copy goes to the caller
Ecdh(d) ==
    /\ dev[d].state = "live"
    /\ dev[Peer(d)].state = "live"
    /\ shared[d] = None
    /\ shared' = [shared EXCEPT ![d] = ecdh(dev[d].secret, public(dev[Peer(d)].secret))]
    /\ residue' = residue \cup {[buf |-> "ecdh.shared", owner |-> d, bytes |-> Zeros(32)]}
    /\ UNCHANGED <<dev, session, chan, sent, recv, nq>>

\* let (key, base_nonce) = derive_aead(&shared): okm is a local of derive_aead and
\* leaves scope at its return as it stands
Derive(d) ==
    /\ shared[d] # None
    /\ session[d] = None
    /\ LET r == derive_aead(shared[d])
       IN  /\ session' = [session EXCEPT ![d] = [key |-> r.key, base_nonce |-> r.nonce]]
           /\ residue' = residue \cup
                  {[buf |-> "derive_aead.okm", owner |-> d, bytes |-> r.okm]}
    /\ UNCHANGED <<dev, shared, chan, sent, recv, nq>>

\* impl Drop for DeviceKey: the body is empty, the StaticSecret field zeroizes itself
DropDeviceKey(d) ==
    /\ dev[d].state = "live"
    /\ dev' = [dev EXCEPT ![d] = [state |-> "dropped", secret |-> Zeros(32)]]
    /\ residue' = residue \cup
           {[buf |-> "DeviceKey.secret", owner |-> d, bytes |-> Zeros(32)]}
    /\ UNCHANGED <<shared, session, chan, sent, recv, nq>>

\* the caller's [u8; 32] from ecdh leaves scope: a plain array, nothing runs
DropShared(d) ==
    /\ shared[d] # None
    /\ shared' = [shared EXCEPT ![d] = None]
    /\ residue' = residue \cup {[buf |-> "ecdh.return", owner |-> d, bytes |-> shared[d]]}
    /\ UNCHANGED <<dev, session, chan, sent, recv, nq>>

\* the caller's Key from derive_aead leaves scope: a plain GenericArray, nothing runs
DropSession(d) ==
    /\ session[d] # None
    /\ session' = [session EXCEPT ![d] = None]
    /\ residue' = residue \cup
           {[buf |-> "derive_aead.key", owner |-> d, bytes |-> session[d].key]}
    /\ UNCHANGED <<dev, shared, chan, sent, recv, nq>>

NextKex ==
    \E d \in Devices :
        \/ generate(d)
        \/ Ecdh(d)
        \/ Derive(d)
        \/ DropDeviceKey(d)
        \/ DropShared(d)
        \/ DropSession(d)

SpecKex == InitKex /\ [][NextKex]_vars

(***************************************************************************)
(* The channel: aead_encrypt and aead_decrypt calls under one              *)
(* (key, base_nonce) pair.  The functions keep no state; `sent` and `recv` *)
(* record the calls made.  The counter, the aad and the buffers are the    *)
(* caller's.                                                               *)
(***************************************************************************)
InitAead ==
    /\ dev = [d \in Devices |-> NoDevice]
    /\ shared = [d \in Devices |-> None]
    /\ session = [d \in Devices |-> None]
    /\ residue = {}
    /\ chan \in ChanSessions
    /\ sent = <<>>
    /\ recv = None
    /\ nq = NoQuery

\* aead_encrypt(&key, &base_nonce, counter, aad, plaintext)
Encrypt(counter, aad, plaintext) ==
    /\ Len(sent) < MaxCalls
    /\ sent' = Append(sent,
           [key |-> chan.key, base_nonce |-> chan.base_nonce, counter |-> counter,
            aad |-> aad, plaintext |-> plaintext,
            nonce |-> enc_nonce_bytes(chan.base_nonce, counter),
            res |-> aead_encrypt(chan.key, chan.base_nonce, counter, aad, plaintext)])
    /\ UNCHANGED <<dev, shared, session, residue, chan, recv, nq>>

\* aead_decrypt(&key, &base_nonce, counter, aad, &ciphertext)
DecryptCall(counter, aad, ciphertext) ==
    /\ recv = None
    /\ recv' = [key |-> chan.key, base_nonce |-> chan.base_nonce, counter |-> counter,
                aad |-> aad, ciphertext |-> ciphertext,
                nonce |-> dec_nonce_bytes(chan.base_nonce, counter),
                res |-> aead_decrypt(chan.key, chan.base_nonce, counter, aad, ciphertext)]
    /\ UNCHANGED <<dev, shared, session, residue, chan, sent, nq>>

\* a ciphertext as sent, decrypted under any counter and aad
DecryptSent ==
    \E i \in 1..Len(sent), counter \in ChanCounters, aad \in Aads :
        DecryptCall(counter, aad, sent[i].res.val)

\* one bit of the body or the tag flipped on the way
DecryptFlippedCiphertext ==
    \E i \in 1..Len(sent) :
        \E p \in 1..Len(sent[i].res.val), k \in 0..7 :
            DecryptCall(sent[i].counter, sent[i].aad, FlipBit(sent[i].res.val, p, k))

\* one bit of the aad flipped on the way
DecryptFlippedAad ==
    \E i \in 1..Len(sent) :
        \E p \in 1..Len(sent[i].aad), k \in 0..7 :
            DecryptCall(sent[i].counter, FlipBit(sent[i].aad, p, k), sent[i].res.val)

\* a ciphertext cut short, down to the empty one
DecryptTruncated ==
    \E i \in 1..Len(sent), counter \in ChanCounters :
        \E n \in 0..(Len(sent[i].res.val) - 1) :
            DecryptCall(counter, sent[i].aad, SubSeq(sent[i].res.val, 1, n))

\* the caller is done with the Result of the decrypt call
DropResult ==
    /\ recv # None
    /\ recv' = None
    /\ UNCHANGED <<dev, shared, session, residue, chan, sent, nq>>

NextAead ==
    \/ \E counter \in ChanCounters, aad \in SentAads, plaintext \in Plaintexts :
           Encrypt(counter, aad, plaintext)
    \/ DecryptSent
    \/ DecryptFlippedCiphertext
    \/ DecryptFlippedAad
    \/ DecryptTruncated
    \/ DropResult

SpecAead == InitAead /\ [][NextAead]_vars

(***************************************************************************)
(* The nonce derivation on its own: both copies of it, for one base nonce  *)
(* and two counters.                                                       *)
(***************************************************************************)
InitNonce ==
    /\ dev = [d \in Devices |-> NoDevice]
    /\ shared = [d \in Devices |-> None]
    /\ session = [d \in Devices |-> None]
    /\ residue = {}
    /\ chan = NoChan
    /\ sent = <<>>
    /\ recv = None
    /\ \E b \in BaseNonces, c1 \in Counters, c2 \in Counters :
           nq = [NoQuery EXCEPT !.base0 = b, !.base_nonce = b, !.c1 = c1, !.c2 = c2]

ComputeNonces ==
    /\ ~nq.done
    /\ nq' = [nq EXCEPT !.done = TRUE,
                        !.enc1 = enc_nonce_bytes(nq.base_nonce, nq.c1),
                        !.enc2 = enc_nonce_bytes(nq.base_nonce, nq.c2),
                        !.dec1 = dec_nonce_bytes(nq.base_nonce, nq.c1),
                        !.dec2 = dec_nonce_bytes(nq.base_nonce, nq.c2)]
    /\ UNCHANGED <<dev, shared, session, residue, chan, sent, recv>>

NextNonce == ComputeNonces

SpecNonce == InitNonce /\ [][NextNonce]_vars

(***************************************************************************)
(* Properties                                                              *)
(***************************************************************************)
SamePair(x, y) == x.key = y.key /\ x.base_nonce = y.base_nonce

\* x and y are equally long and differ in exactly one bit
SingleBitDiff(x, y) ==
    /\ Len(x) = Len(y)
    /\ \E p \in 1..Len(x) :
           /\ BitXor(x[p], y[p]) \in {1, 2, 4, 8, 16, 32, 64, 128}
           /\ \A q \in 1..Len(x) : q # p => x[q] = y[q]

\* C1, as claimed: among the aead_encrypt calls made under one (key, base_nonce)
\* pair, the counter is strictly increasing from call to call.
C1_CountersStrictlyIncrease ==
    \A i \in 1..Len(sent), j \in 1..Len(sent) :
        (i < j /\ SamePair(sent[i], sent[j])) => U64Lt(sent[i].counter, sent[j].counter)

\* C1, amended: aead_encrypt uses the counter it is given; two calls under one
\* (key, base_nonce) pair use the same per-message nonce exactly when they were
\* given the same counter, so calls given distinct counters never share a nonce.
C1_NonceSharedOnlyWithCounter ==
    \A i \in 1..Len(sent), j \in 1..Len(sent) :
        (i # j /\ SamePair(sent[i], sent[j])) =>
            (sent[i].nonce = sent[j].nonce <=> sent[i].counter = sent[j].counter)

\* two calls under one pair whose counters go down, and whose nonces differ
C1_Witness ==
    /\ Len(sent) = 2
    /\ SamePair(sent[1], sent[2])
    /\ U64Lt(sent[2].counter, sent[1].counter)
    /\ sent[1].nonce # sent[2].nonce

\* C2: for a fixed base nonce and counters c1 # c2, the per-message nonces of c1 and
\* c2 differ, in aead_encrypt and in aead_decrypt.
C2_NonceInjective ==
    (nq.done /\ nq.c1 # nq.c2) =>
        (nq.enc1 # nq.enc2 /\ nq.dec1 # nq.dec2)

\* two counters that differ only above bit 47, under a derived base nonce
C2_Witness ==
    /\ nq.done
    /\ nq.c1 = U64(256, 0, 0, 0)
    /\ nq.c2 = U64(0, 0, 0, 0)
    /\ ~IsZero(nq.base_nonce)
    /\ nq.enc1 # nq.enc2

\* C3: aead_decrypt with the key, base nonce, counter and aad of a successful
\* aead_encrypt, on its output, returns Ok with exactly the plaintext.
C3_RoundTrip ==
    recv # None =>
        \A i \in 1..Len(sent) :
            ( /\ sent[i].res.ok
              /\ SamePair(recv, sent[i])
              /\ recv.counter = sent[i].counter
              /\ recv.aad = sent[i].aad
              /\ recv.ciphertext = sent[i].res.val )
            => recv.res = Ok(sent[i].plaintext)

\* b"hi" sent and decrypted back
C3_Witness ==
    /\ recv # None
    /\ recv.res = Ok(<<104, 105>>)
    /\ \E i \in 1..Len(sent) :
           /\ sent[i].plaintext = <<104, 105>>
           /\ recv.ciphertext = sent[i].res.val
           /\ recv.ciphertext # sent[i].plaintext \o SubSeq(recv.ciphertext, 3, Len(recv.ciphertext))

\* C4: a ciphertext of aead_encrypt with one bit of its body or tag flipped, or an
\* aad with one bit flipped, makes aead_decrypt return an error and no plaintext.
C4_TamperRejected ==
    recv # None =>
        \A i \in 1..Len(sent) :
            ( /\ sent[i].res.ok
              /\ SamePair(recv, sent[i])
              /\ recv.counter = sent[i].counter
              /\ \/ recv.aad = sent[i].aad /\ SingleBitDiff(recv.ciphertext, sent[i].res.val)
                 \/ recv.ciphertext = sent[i].res.val /\ SingleBitDiff(recv.aad, sent[i].aad) )
            => recv.res = Err

\* a bit of the body of b"hi" flipped, and the decrypt refused
C4_Witness ==
    /\ recv # None
    /\ ~recv.res.ok
    /\ \E i \in 1..Len(sent) :
           /\ Len(sent[i].plaintext) = 2
           /\ recv.aad = sent[i].aad
           /\ recv.counter = sent[i].counter
           /\ SingleBitDiff(recv.ciphertext, sent[i].res.val)
           /\ SubSeq(recv.ciphertext, 1, 2) # SubSeq(sent[i].res.val, 1, 2)

\* C5: two different plaintexts encrypted under one key and base nonce with two
\* different counters: each ciphertext decrypts to its own plaintext under its own
\* counter, and to an error under the other message's counter.
C5_CrossCounter ==
    recv # None =>
        \A i \in 1..Len(sent), j \in 1..Len(sent) :
            ( /\ SamePair(sent[i], sent[j])
              /\ sent[i].counter # sent[j].counter
              /\ sent[i].plaintext # sent[j].plaintext
              /\ SamePair(recv, sent[i])
              /\ recv.aad = sent[i].aad
              /\ recv.ciphertext = sent[i].res.val )
            => /\ recv.counter = sent[i].counter => recv.res = Ok(sent[i].plaintext)
               /\ recv.counter = sent[j].counter => recv.res = Err

\* the first message decrypted under the second message's counter
C5_Witness ==
    /\ recv # None
    /\ Len(sent) = 2
    /\ sent[1].counter # sent[2].counter
    /\ sent[1].plaintext # sent[2].plaintext
    /\ recv.aad = sent[1].aad
    /\ recv.ciphertext = sent[1].res.val
    /\ recv.counter = sent[2].counter
    /\ ~recv.res.ok

\* C6: both endpoints compute the same 32-byte shared secret.
C6_EcdhSymmetric ==
    \A d \in Devices :
        (shared[d] # None /\ shared[Peer(d)] # None) =>
            (shared[d] = shared[Peer(d)] /\ Len(shared[d]) = 32)

\* two endpoints with different secrets, both holding their ecdh result
C6_Witness ==
    /\ dev["alice"].state = "live"
    /\ dev["bob"].state = "live"
    /\ dev["alice"].secret # dev["bob"].secret
    /\ shared["alice"] # None
    /\ shared["bob"] # None

\* C7, as claimed: every buffer of secret material holds zeros by the time its owner
\* has gone out of scope.
C7_SecretsZeroedOnScopeExit ==
    \A r \in residue : IsZero(r.bytes)

\* C8: aead_decrypt on a ciphertext shorter than the 16-byte tag, the empty one
\* included, returns an error and no plaintext.
C8_ShortRejected ==
    (recv # None /\ Len(recv.ciphertext) < TAG_LEN) => recv.res = Err

\* the empty ciphertext refused
C8_Witness ==
    /\ recv # None
    /\ recv.ciphertext = <<>>
    /\ recv.res = Err

\* C9: the key is the leading 32 bytes and the base nonce the trailing 24 bytes of
\* one 56-byte expansion of the shared secret under the fixed label, and two
\* endpoints with the same shared secret derive the same pair.
C9_DeriveSplit ==
    /\ \A d \in Devices :
           (session[d] # None /\ shared[d] # None) =>
               /\ Len(session[d].key) = 32
               /\ Len(session[d].base_nonce) = 24
               /\ session[d].key \o session[d].base_nonce =
                      HkdfExpand(shared[d], HKDF_INFO, 56)
    /\ ( /\ session["alice"] # None
         /\ session["bob"] # None
         /\ shared["alice"] # None
         /\ shared["alice"] = shared["bob"] ) => session["alice"] = session["bob"]

\* both endpoints hold a derived pair and the shared secret it came from
C9_Witness ==
    /\ session["alice"] # None
    /\ session["bob"] # None
    /\ shared["alice"] # None
    /\ shared["bob"] # None
    /\ ~IsZero(session["alice"].key)
    /\ session["alice"].key # SubSeq(session["alice"].base_nonce, 1, 24) \o Zeros(8)

\* the counter whose big-endian bytes, read back from the nonce, give limb k
NonceLayout(nonce, base_nonce, counter) ==
    /\ Len(nonce) = 24
    /\ \A i \in 1..16 : nonce[i] = base_nonce[i]
    /\ \A k \in 1..4 :
           BitXor(nonce[16 + 2 * k - 1], base_nonce[16 + 2 * k - 1]) * 256
             + BitXor(nonce[16 + 2 * k], base_nonce[16 + 2 * k]) = counter[k]

\* C10: the per-message nonce keeps the first 16 bytes of base_nonce, and byte 16+i
\* is base_nonce[16+i] xor the i-th byte of the counter, most significant first;
\* base_nonce is left as it was and aead_encrypt and aead_decrypt agree.
C10_NonceLayout ==
    nq.done =>
        /\ NonceLayout(nq.enc1, nq.base0, nq.c1)
        /\ NonceLayout(nq.enc2, nq.base0, nq.c2)
        /\ nq.dec1 = nq.enc1
        /\ nq.dec2 = nq.enc2
        /\ nq.base_nonce = nq.base0

\* the counter 0x0102030405060708 under the all-ones base nonce
C10_Witness ==
    /\ nq.done
    /\ nq.c1 = U64(258, 772, 1286, 1800)
    /\ nq.base0 = [i \in 1..AEAD_NONCE_LEN |-> 255]
    /\ SubSeq(nq.enc1, 17, 24) = <<254, 253, 252, 251, 250, 249, 248, 247>>

====
